---------------------------- MODULE Spec2Model ----------------------------
(* A model of ms_funcs.cc (dada2ms): the baseline enumeration of            *)
(* zenithUVWs, the flag repacking of boolArray2charVector and               *)
(* charVector2boolArray, the calibration read of readCalTable, the          *)
(* timestamp scan of str2MEpoch, the per-antenna loop of itrfAnts and the   *)
(* FIELD table writers fillFieldTab and addField.                           *)
(*                                                                          *)
(* Every function of the source is a call frame held in one variable (a     *)
(* record whose fields carry the source's local names) and is run by its    *)
(* own specification; the frames of the other functions stay idle.          *)
EXTENDS Integers, Sequences, FiniteSets, TLC

VARIABLES zen,    \* frame of zenithUVWs
          pack,   \* frame of boolArray2charVector / charVector2boolArray
          cal,    \* frame of readCalTable and the caller's buffers
          ep,     \* frame of str2MEpoch (the sscanf scan)
          itr,    \* frame of itrfAnts
          fld     \* the FIELD table and the last writer's put log

vars == <<zen, pack, cal, ep, itr, fld>>

Idle == [pc |-> "idle"]

Axes == 0..2

(***************************************************************************)
(* zenithUVWs, src/ms_funcs.cc:84-99                                       *)
(***************************************************************************)

\* largest number of antennas of an enumerated position matrix
MaxAnt == 3

\* coordinate values of the enumerated antenna positions
Coord == {0, 1}

\* Matrix<Double> uvw(3, (nAnt+1)*nAnt/2): the allocated column count
NumBaselines(nAnt) == ((nAnt + 1) * nAnt) \div 2

\* a slip of the inner loop: it starts at antenna 0 instead of antenna i
InnerStartZero(i) == 0

\* for (int j=i; ...): the first j of the inner loop
InnerStart(i) == i

\* a slip of the subtraction: antenna j minus antenna i
BaselineReversed(antPos, i, j) == [a \in Axes |-> antPos[a, j] - antPos[a, i]]

\* uvw(a,c) = antPos(a,i) - antPos(a,j) for the three axes a
Baseline(antPos, i, j) == [a \in Axes |-> antPos[a, i] - antPos[a, j]]

\* the frame on entry: nAnt, the allocated matrix, c = 0, i = 0.
\* The matrix is allocated without an initial value: `filled` is the set of
\* columns the loop has written, `oob` records a write outside the matrix.
ZenEntry(n, pos) ==
    [pc |-> "outer", antPos |-> pos, nAnt |-> n, ncol |-> NumBaselines(n),
     uvw |-> [x \in Axes \X (0..(NumBaselines(n) - 1)) |-> 0],
     filled |-> {}, oob |-> FALSE, c |-> 0, i |-> 0, j |-> 0]

ZenInit ==
    \E n \in 0..MaxAnt :
        \E pos \in [Axes \X (0..(n - 1)) -> Coord] : zen = ZenEntry(n, pos)

\* outer loop test true: enter the inner loop at j = i
ZenOuterEnter ==
    /\ zen.pc = "outer"
    /\ zen.i < zen.nAnt
    /\ zen' = [zen EXCEPT !.pc = "inner", !.j = InnerStart(zen.i)]
    /\ UNCHANGED <<pack, cal, ep, itr, fld>>

\* inner loop body: the three assignments and c++, then j++
ZenBody ==
    /\ zen.pc = "inner"
    /\ zen.j < zen.nAnt
    /\ LET b == Baseline(zen.antPos, zen.i, zen.j)
       IN  IF zen.c < zen.ncol
           THEN zen' = [zen EXCEPT
                    !.uvw = [x \in DOMAIN zen.uvw |->
                                IF x[2] = zen.c THEN b[x[1]] ELSE zen.uvw[x]],
                    !.filled = @ \cup {zen.c},
                    !.c = @ + 1, !.j = @ + 1]
           ELSE zen' = [zen EXCEPT !.oob = TRUE, !.c = @ + 1, !.j = @ + 1]
    /\ UNCHANGED <<pack, cal, ep, itr, fld>>

\* inner loop test false: i++
ZenInnerExit ==
    /\ zen.pc = "inner"
    /\ zen.j >= zen.nAnt
    /\ zen' = [zen EXCEPT !.pc = "outer", !.i = @ + 1]
    /\ UNCHANGED <<pack, cal, ep, itr, fld>>

\* outer loop test false: return uvw
ZenReturn ==
    /\ zen.pc = "outer"
    /\ zen.i >= zen.nAnt
    /\ zen' = [zen EXCEPT !.pc = "done"]
    /\ UNCHANGED <<pack, cal, ep, itr, fld>>

ZenNext == ZenOuterEnter \/ ZenBody \/ ZenInnerExit \/ ZenReturn

\* the call is entered and no other function is being called
ZenBegin ==
    ZenInit /\ pack = Idle /\ cal = Idle /\ ep = Idle /\ itr = Idle /\ fld = Idle

SpecZen ==
    /\ ZenBegin
    /\ [][ZenNext]_vars

\* the output index the claim gives to the pair (i, j)
PairIndex(n, i, j) == i * n - ((i * (i - 1)) \div 2) + (j - i)

Pairs(n) == {p \in (0..(n - 1)) \X (0..(n - 1)) : p[1] <= p[2]}

\* C1: the write counter c never exceeds the allocated column count and no
\* write falls outside the matrix; when the loops end c = N(N+1)/2, every
\* column has been written, and the column of every self-pair (i, i) is the
\* zero vector.
C1_BaselineCount ==
    /\ zen.c <= zen.ncol
    /\ ~zen.oob
    /\ zen.pc = "done" =>
          /\ zen.c = (zen.nAnt * (zen.nAnt + 1)) \div 2
          /\ zen.filled = 0..(zen.ncol - 1)
          /\ \A k \in 0..(zen.nAnt - 1) : \A a \in Axes :
                zen.uvw[a, PairIndex(zen.nAnt, k, k)] = 0

\* the enumeration of the largest array, with distinct positions, has ended
C1_Witness ==
    /\ zen.pc = "done"
    /\ zen.nAnt = MaxAnt
    /\ zen.c = NumBaselines(MaxAnt)
    /\ \E a \in Axes : zen.antPos[a, 0] # zen.antPos[a, 1]

\* C2: when the loops end, for every pair i <= j the column
\* i*N - i*(i-1)/2 + (j-i) holds position(i) - position(j) on every axis, and
\* every column is the column of exactly one such pair.
C2_BaselineOrder ==
    zen.pc = "done" =>
        /\ \A p \in Pairs(zen.nAnt) :
              /\ PairIndex(zen.nAnt, p[1], p[2]) \in zen.filled
              /\ \A a \in Axes :
                    zen.uvw[a, PairIndex(zen.nAnt, p[1], p[2])]
                        = zen.antPos[a, p[1]] - zen.antPos[a, p[2]]
        /\ \A col \in 0..(zen.ncol - 1) :
              Cardinality({p \in Pairs(zen.nAnt) :
                  PairIndex(zen.nAnt, p[1], p[2]) = col}) = 1

\* a cross pair with a non-zero, sign-carrying difference has been stored
C2_Witness ==
    /\ zen.pc = "done"
    /\ zen.nAnt >= 2
    /\ zen.antPos[0, 0] = 1 /\ zen.antPos[0, 1] = 0
    /\ zen.uvw[0, 1] = 1

(***************************************************************************)
(* boolArray2charVector and charVector2boolArray, src/ms_funcs.cc:418-436  *)
(***************************************************************************)

\* largest element count of an enumerated array and of an enumerated buffer
MaxElems == 3

\* byte values of an enumerated buffer
Chars == {0, 1, 2}

RECURSIVE Product(_)
\* IPosition::product of a shape
Product(shape) ==
    IF shape = <<>> THEN 0
    ELSE IF Len(shape) = 1 THEN shape[1]
    ELSE shape[1] * Product(Tail(shape))

\* the one- and two-dimensional shapes of at most MaxElems elements
Shapes ==
    {<<n>> : n \in 0..MaxElems}
        \cup {s \in {<<a, b>> : a \in 0..MaxElems, b \in 0..MaxElems} :
                 s[1] * s[2] <= MaxElems}

\* an Array<Bool>: its shape and its elements in iterator order
BoolArrays ==
    UNION {[shape : {s}, data : [1..Product(s) -> BOOLEAN]] : s \in Shapes}

\* a std::vector<char>
CharVectors == UNION {[1..n -> Chars] : n \in 0..MaxElems}

\* a slip of the guard: only a buffer that is too small is rejected
SizeMismatchTooSmall(boolArr, charVec) == Product(boolArr.shape) > Len(charVec)

\* boolArr.shape().product() != charVec.size()
SizeMismatch(boolArr, charVec) == Product(boolArr.shape) # Len(charVec)

\* static_cast<char>(*iter)
CharOfBool(b) == IF b THEN 1 ELSE 0

\* static_cast<Bool>(charVec[i])
BoolOfChar(ch) == ch # 0

\* a slip of the loops: the buffer index is never advanced
NextIndexStuck(i) == i

\* i++ of charVec[i++]; i is kept as the index of the next element, from 1
NextIndex(i) == i + 1

\* the frame on entry of either function; boolArr0 and charVec0 keep the
\* arguments as passed, x is the array packed by a preceding call
PackEntry(op, arr, vec) ==
    [pc |-> "check", op |-> op, boolArr |-> arr, charVec |-> vec,
     boolArr0 |-> arr, charVec0 |-> vec, x |-> arr, rt |-> FALSE,
     i |-> 1, iter |-> 1, err |-> FALSE, oob |-> FALSE]

PackInit ==
    \E op \in {"b2c", "c2b"} : \E arr \in BoolArrays : \E vec \in CharVectors :
        pack = PackEntry(op, arr, vec)

\* the size guard fails: throw std::length_error
PackThrow ==
    /\ pack.pc = "check"
    /\ SizeMismatch(pack.boolArr, pack.charVec)
    /\ pack' = [pack EXCEPT !.pc = "done", !.err = TRUE]
    /\ UNCHANGED <<zen, cal, ep, itr, fld>>

\* the size guard passes: int i = 0, iter = boolArr.begin()
PackStart ==
    /\ pack.pc = "check"
    /\ ~SizeMismatch(pack.boolArr, pack.charVec)
    /\ pack' = [pack EXCEPT !.pc = "loop", !.i = 1, !.iter = 1]
    /\ UNCHANGED <<zen, cal, ep, itr, fld>>

\* boolArray2charVector loop body: charVec[i++] = static_cast<char>(*iter)
B2CStep ==
    /\ pack.pc = "loop" /\ pack.op = "b2c"
    /\ pack.iter <= Product(pack.boolArr.shape)
    /\ IF pack.i \in DOMAIN pack.charVec
       THEN pack' = [pack EXCEPT
                !.charVec[pack.i] = CharOfBool(pack.boolArr.data[pack.iter]),
                !.i = NextIndex(@), !.iter = @ + 1]
       ELSE pack' = [pack EXCEPT !.oob = TRUE, !.i = NextIndex(@), !.iter = @ + 1]
    /\ UNCHANGED <<zen, cal, ep, itr, fld>>

\* charVector2boolArray loop body: *iter = static_cast<Bool>(charVec[i++])
C2BStep ==
    /\ pack.pc = "loop" /\ pack.op = "c2b"
    /\ pack.iter <= Product(pack.boolArr.shape)
    /\ IF pack.i \in DOMAIN pack.charVec
       THEN pack' = [pack EXCEPT
                !.boolArr.data[pack.iter] = BoolOfChar(pack.charVec[pack.i]),
                !.i = NextIndex(@), !.iter = @ + 1]
       ELSE pack' = [pack EXCEPT !.oob = TRUE, !.i = NextIndex(@), !.iter = @ + 1]
    /\ UNCHANGED <<zen, cal, ep, itr, fld>>

\* iter == boolArr.end(): return
PackReturn ==
    /\ pack.pc = "loop"
    /\ pack.iter > Product(pack.boolArr.shape)
    /\ pack' = [pack EXCEPT !.pc = "done"]
    /\ UNCHANGED <<zen, cal, ep, itr, fld>>

\* the caller unpacks the buffer a successful boolArray2charVector filled
\* into a boolean array of the same shape, whatever that array holds
RoundTrip ==
    /\ pack.pc = "done" /\ pack.op = "b2c" /\ ~pack.err /\ ~pack.rt
    /\ \E y \in [1..Product(pack.boolArr.shape) -> BOOLEAN] :
          pack' = [PackEntry("c2b",
                             [shape |-> pack.boolArr.shape, data |-> y],
                             pack.charVec)
                       EXCEPT !.x = pack.boolArr, !.rt = TRUE]
    /\ UNCHANGED <<zen, cal, ep, itr, fld>>

PackNext ==
    PackThrow \/ PackStart \/ B2CStep \/ C2BStep \/ PackReturn \/ RoundTrip

\* the call is entered and no other function is being called
PackBegin ==
    PackInit /\ zen = Idle /\ cal = Idle /\ ep = Idle /\ itr = Idle /\ fld = Idle

SpecPack ==
    /\ PackBegin
    /\ [][PackNext]_vars

\* C3: when boolArray2charVector has packed x into a buffer of x's element
\* count, the buffer holds 1 for true and 0 for false in x's traversal order,
\* and charVector2boolArray of that buffer into an array of x's shape ends
\* without error with that array equal to x.
C3_RoundTrip ==
    /\ (pack.pc = "done" /\ pack.op = "b2c" /\ ~pack.err) =>
          /\ Len(pack.charVec) = Product(pack.boolArr.shape)
          /\ \A k \in DOMAIN pack.charVec :
                pack.charVec[k] = (IF pack.boolArr.data[k] THEN 1 ELSE 0)
    /\ (pack.pc = "done" /\ pack.rt) =>
          /\ ~pack.err /\ ~pack.oob
          /\ pack.boolArr.shape = pack.x.shape
          /\ pack.boolArr.data = pack.x.data

\* a round trip of a mixed array into a target that started out different
C3_Witness ==
    /\ pack.pc = "done" /\ pack.rt
    /\ Product(pack.x.shape) >= 2
    /\ pack.x.data[1] # pack.x.data[2]
    /\ pack.boolArr0.data # pack.x.data

\* the call in progress was entered with a buffer whose size differs from
\* the array's element count
MismatchedEntry == Product(pack.boolArr0.shape) # Len(pack.charVec0)

\* C4: a call entered with mismatched sizes never writes its target (the
\* buffer and the array stay as passed, in size and contents) and ends by
\* raising an error.
C4_MismatchRejected ==
    MismatchedEntry =>
        /\ pack.charVec = pack.charVec0
        /\ pack.boolArr = pack.boolArr0
        /\ pack.pc # "loop"
        /\ pack.pc = "done" => pack.err

\* charVector2boolArray has rejected a buffer larger than a non-empty array
C4_Witness ==
    /\ pack.pc = "done" /\ pack.err /\ MismatchedEntry
    /\ pack.op = "c2b"
    /\ Len(pack.charVec0) > Product(pack.boolArr0.shape)
    /\ Product(pack.boolArr0.shape) > 0

(***************************************************************************)
(* readCalTable, src/ms_funcs.cc:438-461                                   *)
(***************************************************************************)

\* largest row count of an enumerated calibration table, and largest
\* antenna count of the array the table is read for
MaxRow == 3

\* element counts of one cell of the CPARAM column and of the FLAG column
CellSizes == {1, 2}

\* the caller's gain and flag buffers as passed: empty, or used before
GainBuffers == {<<>>, <<9, 9>>}
FlagBuffers == {<<>>, <<2, 2>>}

Rows(nrow) == 0..(nrow - 1)

\* the rows whose flags are set: none, the first, or all
FlaggedRows(nrow) == {{}, {0} \cap Rows(nrow), Rows(nrow)}

\* the CPARAM column as getColumn delivers it: element k of the column data
GainColumn(cell, nrow) == [k \in 1..(cell * nrow) |-> 10 + k]

\* the FLAG column as getColumn delivers it: the cells of a row are adjacent
FlagColumn(cell, nrow, flagged) ==
    [shape |-> <<cell, nrow>>,
     data |-> [k \in 1..(cell * nrow) |-> ((k - 1) \div cell) \in flagged]]

\* std::vector::resize(n): the leading elements stay, new ones are zero
Resize(v, n) == [k \in 1..n |-> IF k <= Len(v) THEN v[k] ELSE 0]

\* the loop of boolArray2charVector run to its end over the whole array
PackAll(boolArr, charVec) ==
    [k \in 1..Len(charVec) |-> CharOfBool(boolArr.data[k])]

\* a slip of the row check: the row is compared with a 1-based antenna number
RowMismatchOneBased(antenna1, i) == antenna1[i] # i + 1

\* antenna1.get(i) != i
RowMismatch(antenna1, i) == antenna1[i] # i

\* the frame on entry. nAnt is the antenna count of the array the caller
\* reads the table for; gain0 and flag0 keep the buffers as passed.
CalInit ==
    \E nrow \in 0..MaxRow : \E nAnt \in 1..MaxRow :
    \E cell \in CellSizes : \E fcell \in CellSizes :
    \E flagged \in FlaggedRows(nrow) :
    \E a1 \in [Rows(nrow) -> 0..nrow] :
    \E g \in GainBuffers : \E f \in FlagBuffers :
        cal = [pc |-> "open", nrow |-> nrow, nAnt |-> nAnt,
               cell |-> cell, fcell |-> fcell, flagged |-> flagged,
               antenna1 |-> a1, gain |-> g, flag |-> f,
               gain0 |-> g, flag0 |-> f,
               num_gains |-> 0, i |-> 0, err |-> "none"]

\* gain_col.shape(0) on a table without rows: the cell does not exist and
\* the column may refuse the row number
CalNoCell ==
    /\ cal.pc = "open"
    /\ cal.nrow = 0
    /\ cal' = [cal EXCEPT !.pc = "done", !.err = "row"]
    /\ UNCHANGED <<zen, pack, ep, itr, fld>>

\* lines 444-451: the shape of cell 0 with nrow appended, num_gains, both
\* buffers resized, the gain column read into the gain buffer's storage.
\* On a table without rows any shape the column answers gives num_gains = 0.
CalReadGain ==
    /\ cal.pc = "open"
    /\ LET n == Product(<<cal.cell, cal.nrow>>)
       IN  cal' = [cal EXCEPT !.pc = "flags", !.num_gains = n,
                              !.gain = GainColumn(cal.cell, cal.nrow),
                              !.flag = Resize(cal.flag, n)]
    /\ UNCHANGED <<zen, pack, ep, itr, fld>>

\* lines 452-453: the FLAG column does not have num_gains elements and
\* boolArray2charVector throws
CalFlagThrow ==
    /\ cal.pc = "flags"
    /\ SizeMismatch(FlagColumn(cal.fcell, cal.nrow, cal.flagged), cal.flag)
    /\ cal' = [cal EXCEPT !.pc = "done", !.err = "length"]
    /\ UNCHANGED <<zen, pack, ep, itr, fld>>

\* lines 452-453: boolArray2charVector fills the flag buffer
CalPackFlags ==
    /\ cal.pc = "flags"
    /\ ~SizeMismatch(FlagColumn(cal.fcell, cal.nrow, cal.flagged), cal.flag)
    /\ cal' = [cal EXCEPT !.pc = "rows", !.i = 0,
                  !.flag = PackAll(FlagColumn(cal.fcell, cal.nrow, cal.flagged),
                                   cal.flag)]
    /\ UNCHANGED <<zen, pack, ep, itr, fld>>

\* lines 457-458: row i names antenna i, i++
CalRowOk ==
    /\ cal.pc = "rows"
    /\ cal.i < cal.nrow
    /\ ~RowMismatch(cal.antenna1, cal.i)
    /\ cal' = [cal EXCEPT !.i = @ + 1]
    /\ UNCHANGED <<zen, pack, ep, itr, fld>>

\* lines 458-459: row i names another antenna, throw
CalRowThrow ==
    /\ cal.pc = "rows"
    /\ cal.i < cal.nrow
    /\ RowMismatch(cal.antenna1, cal.i)
    /\ cal' = [cal EXCEPT !.pc = "done", !.err = "shape"]
    /\ UNCHANGED <<zen, pack, ep, itr, fld>>

\* the loop ends: return
CalReturn ==
    /\ cal.pc = "rows"
    /\ cal.i >= cal.nrow
    /\ cal' = [cal EXCEPT !.pc = "done"]
    /\ UNCHANGED <<zen, pack, ep, itr, fld>>

CalNext ==
    \/ CalNoCell \/ CalReadGain \/ CalFlagThrow \/ CalPackFlags
    \/ CalRowOk \/ CalRowThrow \/ CalReturn

\* the call is entered and no other function is being called
CalBegin ==
    CalInit /\ zen = Idle /\ pack = Idle /\ ep = Idle /\ itr = Idle /\ fld = Idle

SpecCal ==
    /\ CalBegin
    /\ [][CalNext]_vars

\* the rows of the table whose ANTENNA1 is not the row number
BadRows == {r \in Rows(cal.nrow) : cal.antenna1[r] # r}

\* C5: when the read has failed on a row whose ANTENNA1 is not its row
\* number, the caller's gain and flag buffers are as they were passed.
C5_NothingPartial ==
    (cal.pc = "done" /\ cal.err = "shape") =>
        /\ cal.gain = cal.gain0
        /\ cal.flag = cal.flag0

\* C6: for a table with at least one row whose FLAG column has the element
\* count of the gain column, the read ends without error exactly when
\* ANTENNA1(r) = r for every row, and otherwise raises the one-row-per-antenna
\* error with i at the first row whose ANTENNA1 is not its row number.
C6_RowOrderChecked ==
    (cal.pc = "done" /\ cal.nrow >= 1 /\ cal.fcell = cal.cell) =>
        /\ (cal.err = "none") <=> (BadRows = {})
        /\ (BadRows # {}) =>
              /\ cal.err = "shape"
              /\ cal.i \in BadRows
              /\ \A r \in BadRows : cal.i <= r

\* a read of three rows has been rejected at a row after the first
C6_Witness ==
    /\ cal.pc = "done" /\ cal.err = "shape"
    /\ cal.nrow = 3 /\ cal.fcell = cal.cell
    /\ cal.antenna1[0] = 0 /\ cal.antenna1[1] = 2 /\ cal.antenna1[2] = 1
    /\ cal.i = 1

\* C7: a read that ends without error has read a table with exactly one row
\* per antenna of the array: its row count is the array's antenna count. (The
\* table without rows is left to the column's answer for a cell that does
\* not exist; the statement is made of the tables that have rows.)
C7_OneRowPerAntenna ==
    (cal.pc = "done" /\ cal.err = "none" /\ cal.nrow >= 1) => cal.nrow = cal.nAnt

(***************************************************************************)
(* str2MEpoch, src/ms_funcs.cc:24-34                                       *)
(***************************************************************************)

\* largest number of characters put before and after an enumerated text
MaxPad == 1

Digits == {"1", "2", "5"}

DigitValue(ch) == IF ch = "1" THEN 1 ELSE IF ch = "2" THEN 2 ELSE 5

\* the characters of the enumerated texts
Alphabet == Digits \cup {"-", ":", ".", " ", "x", "+"}

\* the characters put before and after a text
PadChars == {" ", "x", "."}

\* texts of the form YYYY-MM-DD-HH:MM:SS and YYYY-MM-DD-HH:MM:SS.s
BaseTexts ==
    { <<"1", "2", "-", "2", "-", "1", "-", "2", ":", "1", ":", "5">>,
      <<"1", "2", "-", "2", "-", "1", "-", "2", ":", "1", ":", "5", ".", "2">> }

\* a text with at most one character replaced or removed
Variants(t) ==
    {t} \cup {[t EXCEPT ![k] = ch] : k \in 1..Len(t), ch \in Alphabet}
        \cup {SubSeq(t, 1, k - 1) \o SubSeq(t, k + 1, Len(t)) : k \in 1..Len(t)}

Pads == UNION {[1..n -> PadChars] : n \in 0..MaxPad}

Texts ==
    {pre \o v \o post : pre \in Pads, post \in Pads,
                        v \in UNION {Variants(t) : t \in BaseTexts}}

\* the format "%d-%d-%d-%d:%d:%lf" as its directives
Format == <<"%d", "-", "%d", "-", "%d", "-", "%d", ":", "%d", ":", "%lf">>

RECURSIVE SkipSpace(_, _)
\* the position of the first character at or after pos that is no white space
SkipSpace(text, pos) ==
    IF pos <= Len(text) /\ text[pos] = " " THEN SkipSpace(text, pos + 1) ELSE pos

RECURSIVE DigitsEnd(_, _)
\* the position of the first character at or after pos that is no digit
DigitsEnd(text, pos) ==
    IF pos <= Len(text) /\ text[pos] \in Digits
    THEN DigitsEnd(text, pos + 1) ELSE pos

RECURSIVE Number(_, _, _)
\* the value of the digits text[from..to-1]
Number(text, from, to) ==
    IF to <= from THEN 0
    ELSE 10 * Number(text, from, to - 1) + DigitValue(text[to - 1])

\* the position after an optional sign at pos
AfterSign(text, pos) ==
    IF pos <= Len(text) /\ text[pos] \in {"-", "+"} THEN pos + 1 ELSE pos

Negative(text, pos) == pos <= Len(text) /\ text[pos] = "-"

\* %d: white space is skipped, then an optional sign and at least one digit
ScanInt(text, pos) ==
    LET p1 == SkipSpace(text, pos)
        p2 == AfterSign(text, p1)
        p3 == DigitsEnd(text, p2)
    IN  IF p3 = p2 THEN [ok |-> FALSE, eof |-> p1 > Len(text)]
        ELSE [ok |-> TRUE, next |-> p3,
              value |-> IF Negative(text, p1) THEN 0 - Number(text, p2, p3)
                        ELSE Number(text, p2, p3)]

\* %lf: white space is skipped, then an optional sign, digits, and an optional
\* point with digits; at least one digit in all. The value is kept as the
\* sign, the whole part and the digits after the point.
ScanDouble(text, pos) ==
    LET p1 == SkipSpace(text, pos)
        p2 == AfterSign(text, p1)
        p3 == DigitsEnd(text, p2)
        point == p3 <= Len(text) /\ text[p3] = "."
        p4 == IF point THEN DigitsEnd(text, p3 + 1) ELSE p3
        ndigits == (p3 - p2) + (IF point THEN p4 - (p3 + 1) ELSE 0)
    IN  IF ndigits = 0 THEN [ok |-> FALSE, eof |-> p1 > Len(text)]
        ELSE [ok |-> TRUE, next |-> p4,
              value |-> [neg |-> Negative(text, p1),
                         whole |-> Number(text, p2, p3),
                         frac |-> IF point THEN SubSeq(text, p3 + 1, p4 - 1)
                                  ELSE <<>>]]

\* sscanf(...) != 6
InvalidString(n) == n # 6

\* the frame on entry: the scan is at the first directive and character
EpInit ==
    \E text \in Texts : \E offset \in {0, 3600} :
        ep = [pc |-> "scan", time |-> text, offset |-> offset, pos |-> 1,
              dir |-> 1, n |-> 0, fields |-> <<>>, result |-> "none"]

\* a %d directive converts a field
EpScanInt ==
    /\ ep.pc = "scan" /\ ep.dir <= Len(Format) /\ Format[ep.dir] = "%d"
    /\ LET r == ScanInt(ep.time, ep.pos)
       IN  /\ r.ok
           /\ ep' = [ep EXCEPT !.pos = r.next, !.dir = @ + 1, !.n = @ + 1,
                               !.fields = Append(@, r.value)]
    /\ UNCHANGED <<zen, pack, cal, itr, fld>>

\* the %lf directive converts the seconds
EpScanDouble ==
    /\ ep.pc = "scan" /\ ep.dir <= Len(Format) /\ Format[ep.dir] = "%lf"
    /\ LET r == ScanDouble(ep.time, ep.pos)
       IN  /\ r.ok
           /\ ep' = [ep EXCEPT !.pos = r.next, !.dir = @ + 1, !.n = @ + 1,
                               !.fields = Append(@, r.value)]
    /\ UNCHANGED <<zen, pack, cal, itr, fld>>

\* a literal directive matches the next character
EpLiteral ==
    /\ ep.pc = "scan" /\ ep.dir <= Len(Format)
    /\ Format[ep.dir] \in {"-", ":"}
    /\ ep.pos <= Len(ep.time) /\ ep.time[ep.pos] = Format[ep.dir]
    /\ ep' = [ep EXCEPT !.pos = @ + 1, !.dir = @ + 1]
    /\ UNCHANGED <<zen, pack, cal, itr, fld>>

\* whether the directive at hand fails on the input at hand
DirectiveFails ==
    /\ ep.dir <= Len(Format)
    /\ \/ Format[ep.dir] = "%d" /\ ~ScanInt(ep.time, ep.pos).ok
       \/ Format[ep.dir] = "%lf" /\ ~ScanDouble(ep.time, ep.pos).ok
       \/ /\ Format[ep.dir] \in {"-", ":"}
          /\ ~(ep.pos <= Len(ep.time) /\ ep.time[ep.pos] = Format[ep.dir])

\* the scan ends, at the end of the format or at a directive that fails;
\* sscanf returns the number of fields converted (EOF, -1, when the input
\* ran out before the first conversion)
EpScanEnd ==
    /\ ep.pc = "scan"
    /\ ep.dir > Len(Format) \/ DirectiveFails
    /\ ep' = [ep EXCEPT !.pc = "scanned",
                 !.n = IF ep.n = 0 /\ ep.dir = 1 /\ ScanInt(ep.time, ep.pos).eof
                       THEN 0 - 1 ELSE ep.n]
    /\ UNCHANGED <<zen, pack, cal, itr, fld>>

\* line 32: throw std::runtime_error
EpThrow ==
    /\ ep.pc = "scanned"
    /\ InvalidString(ep.n)
    /\ ep' = [ep EXCEPT !.pc = "done", !.result = "error"]
    /\ UNCHANGED <<zen, pack, cal, itr, fld>>

\* line 33: return the epoch of the six fields and the offset
EpReturn ==
    /\ ep.pc = "scanned"
    /\ ~InvalidString(ep.n)
    /\ ep' = [ep EXCEPT !.pc = "done", !.result = "epoch"]
    /\ UNCHANGED <<zen, pack, cal, itr, fld>>

EpNext ==
    EpScanInt \/ EpScanDouble \/ EpLiteral \/ EpScanEnd \/ EpThrow \/ EpReturn

\* the call is entered and no other function is being called
EpBegin ==
    EpInit /\ zen = Idle /\ pack = Idle /\ cal = Idle /\ itr = Idle /\ fld = Idle

SpecEpoch ==
    /\ EpBegin
    /\ [][EpNext]_vars

\* The pattern is read in the text's favour: a field is digits, with a sign
\* if it has one, and the seconds are SS, SS., SS.s or .s.

\* the position after the field at pos, or 0 when there is none
StrictField(text, pos) ==
    IF pos = 0 \/ DigitsEnd(text, AfterSign(text, pos)) = AfterSign(text, pos)
    THEN 0 ELSE DigitsEnd(text, AfterSign(text, pos))

\* the position after the separator sep at pos, or 0 when it is not there
StrictSep(text, pos, sep) ==
    IF pos = 0 \/ pos > Len(text) \/ text[pos] # sep THEN 0 ELSE pos + 1

\* the position after the seconds at pos, or 0
StrictSeconds(text, pos) ==
    LET p2 == AfterSign(text, pos)
        p3 == DigitsEnd(text, p2)
        point == p3 <= Len(text) /\ text[p3] = "."
        p4 == IF point THEN DigitsEnd(text, p3 + 1) ELSE p3
    IN  IF pos = 0 \/ (p3 - p2) + (IF point THEN p4 - (p3 + 1) ELSE 0) = 0
        THEN 0 ELSE p4

\* the text is YYYY-MM-DD-HH:MM:SS.s and nothing else
MatchesPattern(text) ==
    LET y == StrictSep(text, StrictField(text, 1), "-")
        m == StrictSep(text, StrictField(text, y), "-")
        d == StrictSep(text, StrictField(text, m), "-")
        h == StrictSep(text, StrictField(text, d), ":")
        mi == StrictSep(text, StrictField(text, h), ":")
    IN  StrictSeconds(text, mi) = Len(text) + 1

\* C8: str2MEpoch returns an epoch only for a text that is exactly the
\* six-field pattern, and throws on every other text; an epoch is made of six
\* converted fields, never of a default.
C8_StrictParse ==
    ep.pc = "done" =>
        /\ (ep.result = "epoch") <=> MatchesPattern(ep.time)
        /\ (ep.result = "epoch") => Len(ep.fields) = 6

(***************************************************************************)
(* itrfAnts, src/ms_funcs.cc:49-67 and 106-140                             *)
(***************************************************************************)

\* const double majorAxis = 6378137.0
MajorAxis == 6378137

\* const double minorAxis = 6356752.3142, in whole metres
MinorAxis == 6356752

\* the array references of the enumerated calls: longitude and latitude in
\* degrees (multiples of a quarter turn), altitude in metres
References ==
    { [longitude |-> 0, latitude |-> 0, altitude |-> 0],
      [longitude |-> 90, latitude |-> 0, altitude |-> 0],
      [longitude |-> 0, latitude |-> 90, altitude |-> 5],
      [longitude |-> 180, latitude |-> 0 - 90, altitude |-> 5] }

\* radians(degrees) = degrees * pi / 180, kept in units of pi/2
radians(degrees) == degrees \div 90

\* cos and sin of an angle of q units of pi/2
Cos(q) == LET r == q % 4 IN IF r = 0 THEN 1 ELSE IF r = 2 THEN 0 - 1 ELSE 0
Sin(q) == LET r == q % 4 IN IF r = 1 THEN 1 ELSE IF r = 3 THEN 0 - 1 ELSE 0

Abs(v) == IF v < 0 THEN 0 - v ELSE v

\* hypot(majorAxis * cos(rLat), minorAxis * sin(rLat)); at a multiple of a
\* quarter turn one of the two legs is zero
seaLevel(latitude) ==
    LET rLat == radians(latitude)
        x == MajorAxis * Cos(rLat)
        y == MinorAxis * Sin(rLat)
    IN  IF y = 0 THEN Abs(x) ELSE Abs(y)

\* Rot3D(axis, angle): the rotation matrix about the axis, as [row, column]
Rot3D(axis, angle) ==
    LET p == (axis + 1) % 3
        q == (axis + 2) % 3
    IN  [x \in Axes \X Axes |->
            IF x = <<axis, axis>> THEN 1
            ELSE IF x = <<p, p>> \/ x = <<q, q>> THEN Cos(angle)
            ELSE IF x = <<q, p>> THEN Sin(angle)
            ELSE IF x = <<p, q>> THEN 0 - Sin(angle)
            ELSE 0]

\* product(matrix, vector)
product(m, v) == [r \in Axes |-> m[r, 0] * v[0] + m[r, 1] * v[1] + m[r, 2] * v[2]]

\* a slip of lines 123-127: the radial component is added to what the
\* shared vector holds from the antenna before
SetCurrPosAccumulate(currPos, antPos, i, seaLev, altitude) ==
    [a \in Axes |-> IF a = 0 THEN currPos[0] + antPos[2, i] + seaLev + altitude
                    ELSE IF a = 1 THEN antPos[0, i] ELSE antPos[1, i]]

\* lines 123-127: currPos = (Up, East, North) of antenna i, then
\* currPos(0) += seaLev + altitude
SetCurrPos(currPos, antPos, i, seaLev, altitude) ==
    [a \in Axes |-> IF a = 0 THEN antPos[2, i] + seaLev + altitude
                    ELSE IF a = 1 THEN antPos[0, i] ELSE antPos[1, i]]

\* line 132: the WGS84 position of length |rotPos| - seaLev along the angles
\* of rotPos; the length and the angles are kept as terms of rotPos
WGSPosition(rotPos, seaLev) ==
    [height |-> [lengthOf |-> rotPos, minus |-> seaLev],
     angle |-> [angleOf |-> rotPos], type |-> "WGS84"]

\* lines 133-137: component a of the converter's ITRF answer for posWGS,
\* kept as a term of posWGS (the converter is a function of its argument)
ITRFComponent(posWGS, a) == [itrf |-> posWGS, axis |-> a]

\* the offset (East, North, Up) of antenna i
Offset(antPos, i) == <<antPos[0, i], antPos[1, i], antPos[2, i]>>

\* the offsets for which the enumerated converters refuse the conversion
BadOffsets == {{}, {<<0, 0, 0>>}, {<<1, 0, 1>>}}

\* the frame on entry: nAnt, the two rotations, seaLev, the allocated matrix
\* (filled holds the columns written), the three shared vectors
ItrInit ==
    \E n \in 0..MaxAnt : \E pos \in [Axes \X (0..(n - 1)) -> Coord] :
    \E ref \in References : \E bad \in BadOffsets :
        itr = [pc |-> "loop", antPos |-> pos, nAnt |-> n, ref |-> ref,
               bad |-> bad,
               rLat |-> Rot3D(1, 0 - radians(ref.latitude)),
               rLon |-> Rot3D(2, radians(ref.longitude)),
               seaLev |-> seaLevel(ref.latitude),
               itrf |-> [x \in Axes \X (0..(n - 1)) |-> <<>>],
               filled |-> {},
               currPos |-> [a \in Axes |-> 0], rotPos |-> [a \in Axes |-> 0],
               i |-> 0, err |-> FALSE, returned |-> <<>>]

\* the vectors and the WGS84 position of the iteration at hand
ItrCurrPos ==
    SetCurrPos(itr.currPos, itr.antPos, itr.i, itr.seaLev, itr.ref.altitude)
ItrRotPos == product(itr.rLon, product(itr.rLat, ItrCurrPos))

\* whether the converter refuses the position of the iteration at hand
ConversionFails == Offset(itr.antPos, itr.i) \in itr.bad

\* lines 121-138: one iteration, the converter answers
ItrIteration ==
    /\ itr.pc = "loop"
    /\ itr.i < itr.nAnt
    /\ ~ConversionFails
    /\ LET posWGS == WGSPosition(ItrRotPos, itr.seaLev)
       IN  itr' = [itr EXCEPT
                !.currPos = ItrCurrPos, !.rotPos = ItrRotPos,
                !.itrf = [x \in DOMAIN itr.itrf |->
                            IF x[2] = itr.i THEN ITRFComponent(posWGS, x[1])
                            ELSE itr.itrf[x]],
                !.filled = @ \cup {itr.i},
                !.i = @ + 1]
    /\ UNCHANGED <<zen, pack, cal, ep, fld>>

\* line 133: the converter throws; the exception leaves the function and
\* the matrix goes with the frame
ItrConvThrow ==
    /\ itr.pc = "loop"
    /\ itr.i < itr.nAnt
    /\ ConversionFails
    /\ itr' = [itr EXCEPT !.currPos = ItrCurrPos, !.rotPos = ItrRotPos,
                          !.pc = "done", !.err = TRUE]
    /\ UNCHANGED <<zen, pack, cal, ep, fld>>

\* line 139: return itrf
ItrReturn ==
    /\ itr.pc = "loop"
    /\ itr.i >= itr.nAnt
    /\ itr' = [itr EXCEPT !.pc = "done",
                  !.returned = <<[ncolumn |-> itr.nAnt, filled |-> itr.filled,
                                  data |-> itr.itrf]>>]
    /\ UNCHANGED <<zen, pack, cal, ep, fld>>

ItrNext == ItrIteration \/ ItrConvThrow \/ ItrReturn

\* the call is entered and no other function is being called
ItrBegin ==
    ItrInit /\ zen = Idle /\ pack = Idle /\ cal = Idle /\ ep = Idle /\ fld = Idle

SpecItrf ==
    /\ ItrBegin
    /\ [][ItrNext]_vars

\* the position the transform gives to one offset under a reference, as a
\* function of that offset and the reference and of nothing else
PositionOf(offset, ref) ==
    LET sea == seaLevel(ref.latitude)
        cur == [a \in Axes |-> IF a = 0 THEN offset[3] + sea + ref.altitude
                               ELSE IF a = 1 THEN offset[1] ELSE offset[2]]
        rot == product(Rot3D(2, radians(ref.longitude)),
                       product(Rot3D(1, 0 - radians(ref.latitude)), cur))
    IN  [a \in Axes |-> ITRFComponent(WGSPosition(rot, sea), a)]

\* C9: a call that returns has returned a matrix of exactly N columns, all
\* written, whose column i is the position of offset i under the reference,
\* independent of N and of the other offsets, so that equal offsets have
\* equal columns; and a call in which the converter refuses some antenna
\* ends with the error and returns no matrix.
C9_OnePositionPerAntenna ==
    itr.pc = "done" =>
        /\ itr.err <=> (\E k \in 0..(itr.nAnt - 1) :
                            Offset(itr.antPos, k) \in itr.bad)
        /\ itr.err => itr.returned = <<>>
        /\ ~itr.err =>
              /\ Len(itr.returned) = 1
              /\ itr.returned[1].ncolumn = itr.nAnt
              /\ itr.returned[1].filled = 0..(itr.nAnt - 1)
              /\ \A k \in 0..(itr.nAnt - 1) : \A a \in Axes :
                    itr.returned[1].data[a, k]
                        = PositionOf(Offset(itr.antPos, k), itr.ref)[a]
              /\ \A k, l \in 0..(itr.nAnt - 1) :
                    Offset(itr.antPos, k) = Offset(itr.antPos, l) =>
                        \A a \in Axes : itr.returned[1].data[a, k]
                                            = itr.returned[1].data[a, l]

\* three antennas at the all-zero offset under the reference (0, 0, 0) have
\* been given one and the same position
C9_Witness ==
    /\ itr.pc = "done" /\ ~itr.err
    /\ itr.nAnt = 3
    /\ itr.ref = [longitude |-> 0, latitude |-> 0, altitude |-> 0]
    /\ \A k \in 0..2 : Offset(itr.antPos, k) = <<0, 0, 0>>
    /\ \A a \in Axes : itr.returned[1].data[a, 0] = itr.returned[1].data[a, 2]

(***************************************************************************)
(* fillFieldTab and addField, src/ms_funcs.cc:199-241                      *)
(***************************************************************************)

\* largest number of addField calls of an enumerated run
MaxFields == 3

\* the columns of the FIELD table the two functions write
FieldColumns == {"name", "delayDir", "phaseDir", "referenceDir", "sourceId"}

\* the names of the enumerated addField calls
FieldNames == {"A", "B"}

\* MDirection(Quantity(0.0, "deg"), Quantity(90.0, "deg"), MDirection::AZEL)
AzelZenith == [lon |-> 0, lat |-> 90, ref |-> "AZEL"]

\* the dir argument of the enumerated calls: NULL (no direction) or a J2000
\* direction
NULL == <<>>
DirArgs == {NULL, <<[lon |-> 10, lat |-> 20, ref |-> "J2000"]>>,
                  <<[lon |-> 30, lat |-> 40, ref |-> "J2000"]>>}

\* a row as addRow appends it: no cell has been put; a cell that has been
\* put holds <<value>>
NewRow == [col \in FieldColumns |-> <<>>]

\* cols.<col>().put(r, v) on row r (rows are numbered from 0)
Put(rows, r, col, v) == [rows EXCEPT ![r + 1][col] = <<v>>]

\* lines 226-232 (and 203-209): the direction the call writes
DirVector(dir) == IF dir = NULL THEN AzelZenith ELSE dir[1]

\* lines 227-228 (and 204-205): setDirectionRef(AZEL) when dir is NULL
DirectionRef(dirRef, dir) == IF dir = NULL THEN "AZEL" ELSE dirRef

\* lines 211-215: the puts of fillFieldTab, all on row 0
FillFieldPuts(dir) ==
    << <<0, "name", "FIELD_NAME">>, <<0, "delayDir", DirVector(dir)>>,
       <<0, "phaseDir", DirVector(dir)>>, <<0, "referenceDir", DirVector(dir)>>,
       <<0, "sourceId", 0>> >>

\* lines 234-238: the puts of addField; the source id is put on row 0
AddFieldPuts(nrow, name, dir) ==
    << <<nrow, "name", name>>, <<nrow, "delayDir", DirVector(dir)>>,
       <<nrow, "phaseDir", DirVector(dir)>>,
       <<nrow, "referenceDir", DirVector(dir)>>,
       <<0, "sourceId", 0>> >>

RECURSIVE ApplyPuts(_, _)
\* the rows after the puts, in their order
ApplyPuts(rows, puts) ==
    IF puts = <<>> THEN rows
    ELSE ApplyPuts(Put(rows, puts[1][1], puts[1][2], puts[1][3]), Tail(puts))

\* the cells a list of puts writes
Cells(puts) == {<<puts[k][1], puts[k][2]>> : k \in DOMAIN puts}

\* an empty FIELD table, its direction columns in the default reference
FldInit ==
    fld = [pc |-> "empty", rows |-> <<>>, dirRef |-> "J2000",
           rows0 |-> <<>>, puts |-> {}, k |-> 0]

\* fillFieldTab(field, dir) on the empty table
FillFieldTab ==
    /\ fld.pc = "empty"
    /\ \E dir \in DirArgs :
          fld' = [fld EXCEPT
              !.pc = "filled",
              !.dirRef = DirectionRef(@, dir),
              !.rows0 = fld.rows,
              !.rows = ApplyPuts(Append(fld.rows, NewRow), FillFieldPuts(dir)),
              !.puts = Cells(FillFieldPuts(dir))]
    /\ UNCHANGED <<zen, pack, cal, ep, itr>>

\* addField(field, name, dir): nrow = field.nrow(), addRow, the puts.
\* rows0 keeps the rows as they were before the call, puts the cells the
\* call has written.
AddField ==
    /\ fld.pc \in {"filled", "added"}
    /\ fld.k < MaxFields
    /\ \E name \in FieldNames : \E dir \in DirArgs :
          LET nrow == Len(fld.rows)
          IN  fld' = [fld EXCEPT
                  !.pc = "added",
                  !.dirRef = DirectionRef(@, dir),
                  !.rows0 = fld.rows,
                  !.rows = ApplyPuts(Append(fld.rows, NewRow),
                                     AddFieldPuts(nrow, name, dir)),
                  !.puts = Cells(AddFieldPuts(nrow, name, dir)),
                  !.k = @ + 1]
    /\ UNCHANGED <<zen, pack, cal, ep, itr>>

FldNext == FillFieldTab \/ AddField

\* the call is entered and no other function is being called
FldBegin ==
    FldInit /\ zen = Idle /\ pack = Idle /\ cal = Idle /\ ep = Idle /\ itr = Idle

SpecField ==
    /\ FldBegin
    /\ [][FldNext]_vars

\* C10: after fillFieldTab and k addField calls the table has k+1 rows, and
\* the last addField call has written the name, the three directions and the
\* source id on the row it appended and no cell of an earlier row: the
\* earlier rows are as they were and the new row's source id has been put.
C10_AddFieldWritesNewRow ==
    fld.pc = "added" =>
        LET new == Len(fld.rows0)
        IN  /\ Len(fld.rows) = fld.k + 1
            /\ fld.puts = {new} \X FieldColumns
            /\ \A r \in 1..Len(fld.rows0) : fld.rows[r] = fld.rows0[r]
            /\ fld.rows[new + 1]["sourceId"] # <<>>

=============================================================================
